---- MODULE Spec2Model ----
(***************************************************************************)
(* Room registry and broadcast relay of backend/main.py.                   *)
(*                                                                         *)
(* One asyncio task runs websocket_endpoint per connection.  A task only   *)
(* gives up control at an await: ws.accept() (line 20), ws.receive_json()  *)
(* (line 31) and client.send_json(data) (line 48).  Everything between two *)
(* awaits is one atomic step, so an action below is the code from one      *)
(* await to the next.                                                      *)
(*                                                                         *)
(* Connections are named 1..MaxConns in the order in which they are        *)
(* accepted.  A message is the record read from the wire; its `from' and   *)
(* `seq' stand for the opaque fields that make two sends distinguishable,  *)
(* its `type' is the value of data.get("type").                            *)
(***************************************************************************)
EXTENDS Integers, Sequences, FiniteSets, TLC

\* Bounds of the model.
MaxConns == 3
MaxMsgs == 2

Conns == 1..MaxConns
RoomIds == {"r1", "r2"}

\* data.get("type"): a content type, a signal type, and the absent key
\* (None), which line 42 treats as any unrecognised value.
NoType == "None"
Types == {"chat", "offer", NoType}

NoMsg == [from |-> 0, seq |-> 0, type |-> NoType]

\* What a send to a closed transport raises: Starlette turns an OSError of
\* the server into WebSocketDisconnect and raises RuntimeError otherwise.
SendErrors == {"WebSocketDisconnect", "RuntimeError"}

\* What receive_json / data.get raise on a payload that is not a JSON
\* object: json.JSONDecodeError (not JSON) or AttributeError (not a dict).
PayloadErrors == {"JSONDecodeError", "AttributeError"}

VARIABLES
    rooms,      \* line 9: room_id -> list of websockets
    room_id,    \* the path parameter of each connection's task
    pc,         \* where each task is: "unconnected", "recv" (line 31),
                \* "send" (line 48), "removed" (handler ran), "crashed"
    data,       \* line 31: the message the task is relaying
    idx,        \* line 46: the list iterator's index (elements consumed)
    open,       \* the transport of the connection is open
    inbox,      \* what each client has been sent over its open transport,
                \* in order
    nsent,      \* how many messages the server has read from each client
    log,        \* the last line printed
    bc          \* history of each task's current (or last) fan-out

vars == <<rooms, room_id, pc, data, idx, open, inbox, nsent, log, bc>>

Joined == {"recv", "send"}
Ended == {"removed", "crashed"}

----------------------------------------------------------------------------
\* Lists

Range(s) == {s[i] : i \in 1..Len(s)}

InList(x, s) == \E i \in 1..Len(s) : s[i] = x

Count(x, s) == Cardinality({i \in 1..Len(s) : s[i] = x})

\* list.remove(x): drops the first element equal to x.
RemoveFirst(s, x) ==
    LET i == CHOOSE j \in 1..Len(s) : s[j] = x /\ \A k \in 1..(j - 1) : s[k] # x
    IN  SubSeq(s, 1, i - 1) \o SubSeq(s, i + 1, Len(s))

Restrict(f, S) == [x \in S |-> f[x]]

----------------------------------------------------------------------------
\* Registry operations

\* Join with the append in an else branch: a new room starts empty.
JoinAppendOnlyExisting(rms, r, ws) ==
    IF r \notin DOMAIN rms THEN rms @@ (r :> <<>>)
    ELSE [rms EXCEPT ![r] = Append(@, ws)]

\* Join that makes a fresh list every time: rooms[room_id] = [ws].
JoinFreshList(rms, r, ws) ==
    LET base == IF r \notin DOMAIN rms THEN rms @@ (r :> <<>>) ELSE rms
    IN  [base EXCEPT ![r] = <<ws>>]

\* Join with insert(0, ws) for append(ws).
JoinAtFront(rms, r, ws) ==
    LET base == IF r \notin DOMAIN rms THEN rms @@ (r :> <<>>) ELSE rms
    IN  [base EXCEPT ![r] = <<ws>> \o @]

\* Join into one list shared by all rooms: ws is appended to every room.
JoinEverywhere(rms, r, ws) ==
    LET base == IF r \notin DOMAIN rms THEN rms @@ (r :> <<>>) ELSE rms
    IN  [x \in DOMAIN base |-> Append(base[x], ws)]

\* Lines 22-25.
Join(rms, r, ws) ==
    LET base == IF r \notin DOMAIN rms THEN rms @@ (r :> <<>>) ELSE rms
    IN  [base EXCEPT ![r] = Append(@, ws)]

\* Leave without lines 53-54: the emptied room stays in the registry.
LeaveKeepEmpty(rms, r, ws) ==
    IF r \notin DOMAIN rms THEN [rooms |-> rms, raised |-> "KeyError"]
    ELSE IF ~InList(ws, rms[r]) THEN [rooms |-> rms, raised |-> "ValueError"]
    ELSE [rooms |-> [rms EXCEPT ![r] = RemoveFirst(@, ws)], raised |-> "none"]

\* Leave with pop(0) for remove(ws): the oldest member goes, whoever left.
LeavePopFirst(rms, r, ws) ==
    IF r \notin DOMAIN rms THEN [rooms |-> rms, raised |-> "KeyError"]
    ELSE IF ~InList(ws, rms[r]) THEN [rooms |-> rms, raised |-> "ValueError"]
    ELSE LET l == Tail(rms[r])
         IN  IF l = <<>>
             THEN [rooms |-> Restrict(rms, DOMAIN rms \ {r}), raised |-> "none"]
             ELSE [rooms |-> [rms EXCEPT ![r] = l], raised |-> "none"]

\* The list of s back to front.
Reverse(s) == [i \in 1..Len(s) |-> s[Len(s) + 1 - i]]

\* Leave that rebuilds the list from a set: the members that stay lose their
\* order.
LeaveUnordered(rms, r, ws) ==
    IF r \notin DOMAIN rms THEN [rooms |-> rms, raised |-> "KeyError"]
    ELSE IF ~InList(ws, rms[r]) THEN [rooms |-> rms, raised |-> "ValueError"]
    ELSE LET l == Reverse(RemoveFirst(rms[r], ws))
         IN  IF l = <<>>
             THEN [rooms |-> Restrict(rms, DOMAIN rms \ {r}), raised |-> "none"]
             ELSE [rooms |-> [rms EXCEPT ![r] = l], raised |-> "none"]

\* Leave that reports success and removes nothing.
LeaveNothing(rms, r, ws) ==
    IF r \notin DOMAIN rms THEN [rooms |-> rms, raised |-> "KeyError"]
    ELSE IF ~InList(ws, rms[r]) THEN [rooms |-> rms, raised |-> "ValueError"]
    ELSE [rooms |-> rms, raised |-> "none"]

\* Lines 51-54.  rooms[room_id] raises KeyError when the room is gone and
\* list.remove raises ValueError when ws is not in the list.
Leave(rms, r, ws) ==
    IF r \notin DOMAIN rms THEN [rooms |-> rms, raised |-> "KeyError"]
    ELSE IF ~InList(ws, rms[r]) THEN [rooms |-> rms, raised |-> "ValueError"]
    ELSE LET l == RemoveFirst(rms[r], ws)
         IN  IF l = <<>>
             THEN [rooms |-> Restrict(rms, DOMAIN rms \ {r}), raised |-> "none"]
             ELSE [rooms |-> [rms EXCEPT ![r] = l], raised |-> "none"]

\* Lines 36-43.
Classify(t) ==
    IF t \in {"chat", "image", "file"} THEN "content"
    ELSE IF t \in {"offer", "answer", "ice"} THEN "signal"
    ELSE "unknown"

\* Lines 36-43: what the classification prints (nothing for a signal).
LogReceived(lg, r, t) ==
    IF Classify(t) = "content" THEN <<"received", r, t>>
    ELSE IF Classify(t) = "signal" THEN lg
    ELSE <<"unknown", r, t>>

\* The loop without the test of line 47: the sender is a recipient too.
NextRecipientNoTest(l, k, ws) == IF k >= Len(l) THEN 0 ELSE k + 1

\* The loop with the test of line 47 inverted: only the sender is sent to.
RECURSIVE NextRecipientInverted(_, _, _)
NextRecipientInverted(l, k, ws) ==
    IF k >= Len(l) THEN 0
    ELSE IF l[k + 1] = ws THEN k + 1
    ELSE NextRecipientInverted(l, k + 1, ws)

\* The loop leaving after its first send.
RECURSIVE NextRecipientFirstOnly(_, _, _)
NextRecipientFirstOnly(l, k, ws) ==
    IF k >= Len(l) THEN 0
    ELSE IF \E j \in 1..k : l[j] # ws THEN 0
    ELSE IF l[k + 1] # ws THEN k + 1
    ELSE NextRecipientFirstOnly(l, k + 1, ws)

\* Lines 46-47: the list iterator has consumed k elements of l; the
\* position of the next element that is not ws, or 0 when the list is
\* exhausted.  The iterator reads the live list at every step.
RECURSIVE NextRecipient(_, _, _)
NextRecipient(l, k, ws) ==
    IF k >= Len(l) THEN 0
    ELSE IF l[k + 1] # ws THEN k + 1
    ELSE NextRecipient(l, k + 1, ws)

\* A relay that rewrites the record: the type becomes its category.
DeliverClassified(box, d) == Append(box, [d EXCEPT !.type = Classify(d.type)])

\* A transport that hands over the newest record first.
DeliverFront(box, d) == <<d>> \o box

\* Line 48: client.send_json(data) on an open transport.
Deliver(box, d) == Append(box, d)

----------------------------------------------------------------------------
\* History of a fan-out (not program state): the members of the room when
\* the loop of line 46 started, the members present at every instant since,
\* whether the membership changed, the recipients whose send returned, and,
\* when a send raised, the members that were still ahead of the iterator
\* with an open transport; `to' is the connection the last send of the loop
\* went to (0: none yet).  State "badpayload" marks a task that a payload
\* which is no JSON object has ended.
NoBc == [state |-> "idle", start |-> {}, stay |-> {}, changed |-> FALSE,
         got |-> {}, owed |-> {}, to |-> 0]

StartBc(l) == [state |-> "running", start |-> Range(l), stay |-> Range(l),
               changed |-> FALSE, got |-> {}, owed |-> {}, to |-> 0]

\* The membership of room r became `members' while other tasks are suspended
\* in a fan-out over it.
Touch(b, r, members) ==
    [s \in Conns |->
        IF pc[s] = "send" /\ room_id[s] = r
        THEN [b[s] EXCEPT !.stay = @ \cap members, !.changed = TRUE]
        ELSE b[s]]

\* Messages read so far, over all connections.
RECURSIVE Total(_, _)
Total(f, n) == IF n = 0 THEN 0 ELSE f[n] + Total(f, n - 1)

Members(rms, r) == IF r \in DOMAIN rms THEN Range(rms[r]) ELSE {}

----------------------------------------------------------------------------
Init ==
    /\ rooms = <<>>
    /\ room_id = [c \in Conns |-> "none"]
    /\ pc = [c \in Conns |-> "unconnected"]
    /\ data = [c \in Conns |-> NoMsg]
    /\ idx = [c \in Conns |-> 0]
    /\ open = [c \in Conns |-> FALSE]
    /\ inbox = [c \in Conns |-> <<>>]
    /\ nsent = [c \in Conns |-> 0]
    /\ log = <<>>
    /\ bc = [c \in Conns |-> NoBc]

\* Room identifiers are opaque keys: the first one a client ever asks for is
\* called "r1".
FreshOrUsed ==
    IF \A c \in Conns : pc[c] = "unconnected" THEN {"r1"} ELSE RoomIds

\* Lines 19-27: accept returns, the connection joins its room and the task
\* waits at line 31.
Accept(c, r) ==
    /\ pc[c] = "unconnected"
    /\ \A b \in 1..(c - 1) : pc[b] # "unconnected"
    /\ r \in FreshOrUsed
    /\ rooms' = Join(rooms, r, c)
    /\ room_id' = [room_id EXCEPT ![c] = r]
    /\ pc' = [pc EXCEPT ![c] = "recv"]
    /\ open' = [open EXCEPT ![c] = TRUE]
    /\ log' = <<"connected", r, Len(rooms'[r])>>
    /\ bc' = Touch(bc, r, Range(rooms'[r]))
    /\ UNCHANGED <<data, idx, inbox, nsent>>

\* The client (or the network) closes the transport of a joined connection.
\* Nothing reaches the client from then on; its inbox is no longer observed.
ClientClose(c) ==
    /\ pc[c] \in Joined
    /\ open[c]
    /\ open' = [open EXCEPT ![c] = FALSE]
    /\ inbox' = [inbox EXCEPT ![c] = <<>>]
    /\ UNCHANGED <<rooms, room_id, pc, data, idx, nsent, log, bc>>

\* Exception e leaves the task of c; b is the fan-out history so far.
\* Lines 50-54 catch WebSocketDisconnect only; anything else ends the task
\* with the registry untouched.  The server closes the transport of a task
\* that has returned or raised.
Raise(c, e, b, lg) ==
    LET r == room_id[c]
        res == Leave(rooms, r, c)
        handled == e = "WebSocketDisconnect"
    IN  /\ rooms' = IF handled THEN res.rooms ELSE rooms
        /\ pc' = [pc EXCEPT ![c] =
                    IF handled /\ res.raised = "none" THEN "removed" ELSE "crashed"]
        /\ log' = IF handled /\ res.raised = "none" THEN <<"disconnected", r>> ELSE lg
        /\ bc' = IF handled /\ res.raised = "none"
                 THEN Touch(b, r, Members(res.rooms, r))
                 ELSE b
        /\ open' = [open EXCEPT ![c] = FALSE]
        /\ data' = [data EXCEPT ![c] = NoMsg]
        /\ idx' = [idx EXCEPT ![c] = 0]
        /\ inbox' = [inbox EXCEPT ![c] = <<>>]
        /\ UNCHANGED room_id

\* Lines 46-48 from an iterator that has consumed k elements, up to the next
\* await: the loop ends (back to line 31), a send goes out and the task is
\* suspended in it, or the send raises.  A send to an open transport hands
\* the record to the client; a send to a closed one raises.  The iterator
\* was made from rooms[room_id] at line 46; that list holds the sender for
\* as long as the loop runs, so it is still the list the registry holds.
Fanout(c, k, d, b, lg) ==
    LET l == rooms[room_id[c]]
        i == NextRecipient(l, k, c)
    IN  IF i = 0
        THEN /\ pc' = [pc EXCEPT ![c] = "recv"]
             /\ idx' = [idx EXCEPT ![c] = 0]
             /\ data' = [data EXCEPT ![c] = NoMsg]
             /\ bc' = [b EXCEPT ![c].state = "done", ![c].to = 0]
             /\ log' = lg
             /\ UNCHANGED <<rooms, room_id, open, inbox>>
        ELSE IF open[l[i]]
        THEN /\ inbox' = [inbox EXCEPT ![l[i]] = Deliver(@, d)]
             /\ pc' = [pc EXCEPT ![c] = "send"]
             /\ idx' = [idx EXCEPT ![c] = i]
             /\ data' = [data EXCEPT ![c] = d]
             /\ bc' = [b EXCEPT ![c].got = @ \cup {l[i]}, ![c].to = l[i]]
             /\ log' = lg
             /\ UNCHANGED <<rooms, room_id, open>>
        ELSE \E e \in SendErrors :
                Raise(c, e,
                      [b EXCEPT ![c].state = "failed",
                                ![c].to = l[i],
                                ![c].owed = {l[j] : j \in (i + 1)..Len(l)}
                                            \cap {m \in Conns : m # c /\ open[m]}],
                      lg)

\* Line 31 returns a JSON object whose "type" is t (NoType: no such key);
\* lines 34-43 classify and log it; the fan-out starts.
Receive(c, t) ==
    /\ pc[c] = "recv"
    /\ open[c]
    /\ Total(nsent, MaxConns) < MaxMsgs
    /\ nsent' = [nsent EXCEPT ![c] = @ + 1]
    /\ Fanout(c, 0, [from |-> c, seq |-> nsent[c] + 1, type |-> t],
              [bc EXCEPT ![c] = StartBc(rooms[room_id[c]])],
              LogReceived(log, room_id[c], t))

\* Line 31 raises WebSocketDisconnect: the transport is closed.
ReceiveDisconnect(c) ==
    /\ pc[c] = "recv"
    /\ ~open[c]
    /\ Raise(c, "WebSocketDisconnect", [bc EXCEPT ![c] = NoBc], log)
    /\ UNCHANGED nsent

\* Line 31 or line 34 raises on a payload that is not a JSON object.
ReceiveBad(c, e) ==
    /\ pc[c] = "recv"
    /\ open[c]
    /\ Raise(c, e, [bc EXCEPT ![c] = [NoBc EXCEPT !.state = "badpayload"]], log)
    /\ UNCHANGED nsent

\* Line 48 returns: the loop goes on from where the iterator stands.
Resume(c) ==
    /\ pc[c] = "send"
    /\ Fanout(c, idx[c], data[c], bc, log)
    /\ UNCHANGED nsent

Next ==
    \/ \E c \in Conns, r \in RoomIds : Accept(c, r)
    \/ \E c \in Conns : ClientClose(c)
    \/ \E c \in Conns, t \in Types : Receive(c, t)
    \/ \E c \in Conns : ReceiveDisconnect(c)
    \/ \E c \in Conns, e \in PayloadErrors : ReceiveBad(c, e)
    \/ \E c \in Conns : Resume(c)

Spec == Init /\ [][Next]_vars

----------------------------------------------------------------------------
\* Properties

NotMember(c) == \A r \in DOMAIN rooms : ~InList(c, rooms[r])

\* Client m holds message number n of sender c.
Has(m, c, n) == \E i \in 1..Len(inbox[m]) : inbox[m][i].from = c /\ inbox[m][i].seq = n

\* C1 - no self-delivery: no client is ever sent a message that it sent
\* itself, in any interleaving; nothing but relayed messages of others
\* reaches a client.
C1_NoSelfDelivery ==
    \A c \in Conns : \A i \in 1..Len(inbox[c]) : inbox[c][i].from # c

\* A sender whose broadcast reached somebody and whose own inbox is observed.
C1_Witness ==
    \E c \in Conns : /\ bc[c].state = "done" /\ bc[c].got # {}
                     /\ open[c] /\ Cardinality(bc[c].start) >= 2

\* C2 - complete fan-out: a broadcast during which the membership of the
\* room did not change and no send raised has delivered the message to
\* exactly the members of the room other than the sender, and the sender is
\* back at its receive.
C2_CompleteFanout ==
    \A c \in Conns :
        (bc[c].state = "done" /\ ~bc[c].changed) =>
            /\ bc[c].got = bc[c].start \ {c}
            /\ pc[c] = "recv"
            /\ \A m \in Conns :
                  open[m] => (Has(m, c, nsent[c]) <=> m \in bc[c].start \ {c})

\* Three members, the sender's message reached exactly the other two.
C2_Witness ==
    \E c \in Conns : /\ bc[c].state = "done" /\ ~bc[c].changed
                     /\ Cardinality(bc[c].start) = 3
                     /\ \A m \in bc[c].start \ {c} : open[m] /\ Has(m, c, nsent[c])

\* C3 - failure isolation for recipients: when the send to one recipient
\* raised, the members that came after it in the fan-out (and could be
\* reached) have been delivered the message once the sender's task is done
\* with it.
C3_RestStillDelivered ==
    \A c \in Conns :
        (bc[c].state = "failed" /\ pc[c] # "send") => bc[c].owed \subseteq bc[c].got

\* C4 - no cross-connection error propagation: a send that raised during the
\* broadcast of c leaves c in the Joined state and in its room.
C4_SenderSurvivesSendFailure ==
    \A c \in Conns :
        bc[c].state = "failed" =>
            /\ pc[c] \in Joined
            /\ room_id[c] \in DOMAIN rooms
            /\ InList(c, rooms[room_id[c]])

\* C5 - no leaked membership: a connection whose task has ended is a member
\* of no room.
C5_NoLeakedMembership ==
    \A c \in Conns : pc[c] \in Ended => NotMember(c)

\* C6 - the recipients of a broadcast are the membership at one instant: a
\* connection other than the sender that was a member of the room during
\* the whole of a broadcast that ran to its end (and whose transport is
\* open, so that a send to it succeeds) has received the message.
C6_StayersReceive ==
    \A c \in Conns :
        bc[c].state = "done" =>
            \A m \in bc[c].stay \ {c} : open[m] => m \in bc[c].got /\ Has(m, c, nsent[c])

\* C7 - disconnect cleanup: the step that handles the disconnect of c leaves
\* c a member of no room and, when c was the only member of its room, the
\* room identifier out of the registry; and c stays a member of no room.
C7_DisconnectCleanup ==
    /\ [](\A c \in Conns : pc[c] = "removed" => NotMember(c))
    /\ [][\A c \in Conns :
            (pc[c] \in Joined /\ pc'[c] = "removed") =>
                /\ \A r \in DOMAIN rooms' : ~InList(c, rooms'[r])
                /\ Range(rooms[room_id[c]]) = {c} => room_id[c] \notin DOMAIN rooms']_vars

\* The last member of a room has disconnected and the room is gone, while
\* another room lives on.
C7_Witness ==
    \E c \in Conns : /\ pc[c] = "removed"
                     /\ room_id[c] \notin DOMAIN rooms
                     /\ DOMAIN rooms # {}

\* C8 - non-empty rooms: every room identifier in the registry maps to a
\* list with at least one member.
C8_NonEmptyRooms ==
    \A r \in DOMAIN rooms : Len(rooms[r]) >= 1

\* A room that lost a member and kept another, beside a room just created.
C8_Witness ==
    /\ DOMAIN rooms = RoomIds
    /\ \E c \in Conns : pc[c] = "removed" /\ Len(rooms[room_id[c]]) = 1

\* C9 - single-room membership: a connection appears under no room
\* identifier but the one it joined with, and while it is Joined it appears
\* there exactly once.
C9_SingleRoom ==
    \A c \in Conns :
        /\ \A r \in DOMAIN rooms : InList(c, rooms[r]) => r = room_id[c]
        /\ pc[c] \in Joined =>
              /\ room_id[c] \in DOMAIN rooms
              /\ Count(c, rooms[room_id[c]]) = 1

\* Joined connections in two rooms, after a member of one of them left.
C9_Witness ==
    \E a, b, c \in Conns :
        /\ pc[a] \in Joined /\ pc[b] \in Joined /\ pc[c] = "removed"
        /\ room_id[a] # room_id[b] /\ room_id[c] = room_id[b]

\* C10 - per-sender ordering: in every inbox, two messages of one sender
\* stand in the order in which that sender sent them.
C10_PerSenderOrder ==
    \A m \in Conns : \A i, j \in 1..Len(inbox[m]) :
        (i < j /\ inbox[m][i].from = inbox[m][j].from) =>
            inbox[m][i].seq < inbox[m][j].seq

\* A recipient holding two messages of one sender.
C10_Witness ==
    \E m \in Conns : \E i, j \in 1..Len(inbox[m]) :
        i < j /\ inbox[m][i].from = inbox[m][j].from

----------------------------------------------------------------------------
\* Lines 51-54 on their own: the handler run from any registry, also one in
\* which the connection that leaves is not (or no longer) registered.

\* Member lists of up to two distinct connections.
Lists == {<<a>> : a \in Conns} \cup
         {<<x[1], x[2]>> : x \in {p \in Conns \X Conns : p[1] # p[2]}}

Registries == UNION {[D -> Lists] : D \in SUBSET RoomIds}

Registered(c) == room_id[c] \in DOMAIN rooms /\ InList(c, rooms[room_id[c]])

LeaveInit ==
    /\ rooms \in Registries
    /\ room_id \in [Conns -> RoomIds]
    /\ pc = [c \in Conns |-> "recv"]
    /\ data = [c \in Conns |-> NoMsg]
    /\ idx = [c \in Conns |-> 0]
    /\ open = [c \in Conns |-> FALSE]
    /\ inbox = [c \in Conns |-> <<>>]
    /\ nsent = [c \in Conns |-> 0]
    /\ log = <<>>
    /\ bc = [c \in Conns |-> NoBc]

LeaveNext == \E c \in Conns : ReceiveDisconnect(c)

SpecLeave == LeaveInit /\ [][LeaveNext]_vars

\* C11 - malformed-payload tolerance: a connection whose payload was not
\* parseable as a structured message stays Joined and registered; a message
\* without `type' is classified unknown and is relayed like any other.
C11_MalformedTolerated ==
    \A c \in Conns :
        /\ bc[c].state = "badpayload" =>
              /\ pc[c] \in Joined
              /\ room_id[c] \in DOMAIN rooms
              /\ InList(c, rooms[room_id[c]])
        /\ (pc[c] = "send" /\ data[c].type = NoType) =>
              /\ Classify(data[c].type) = "unknown"
              /\ \A m \in bc[c].got : open[m] => InList(data[c], inbox[m])

StepTyped(c, t) ==
    IF pc[c] = "recv" THEN Receive(c, t)
    ELSE /\ pc[c] = "send"
         /\ Fanout(c, idx[c], [data[c] EXCEPT !.type = t], bc, log)
         /\ UNCHANGED nsent

RecordTyped(c, t) ==
    IF pc[c] = "recv" THEN [from |-> c, seq |-> nsent[c] + 1, type |-> t]
    ELSE [data[c] EXCEPT !.type = t]

\* C13 - classification does not interfere with relay: from every reachable
\* state, the step of a broadcast taken with one `type' and the same step
\* taken with any other reach the same recipient, leave the task at the
\* same place and treat the registry alike; and the record a recipient is
\* handed is the record received, unmodified.
C13_TypeDoesNotInterfere ==
    \A c \in Conns : \A t \in Types :
        pc[c] \in Joined =>
            /\ \A m \in Conns :
                  ENABLED (StepTyped(c, t) /\ Len(inbox'[m]) > Len(inbox[m]))
                  <=> ENABLED (StepTyped(c, "chat") /\ Len(inbox'[m]) > Len(inbox[m]))
            /\ \A p \in Joined \cup Ended :
                  ENABLED (StepTyped(c, t) /\ pc'[c] = p)
                  <=> ENABLED (StepTyped(c, "chat") /\ pc'[c] = p)
            /\ ENABLED (StepTyped(c, t) /\ rooms' = rooms)
                  <=> ENABLED (StepTyped(c, "chat") /\ rooms' = rooms)
            /\ ~ENABLED (/\ StepTyped(c, t)
                         /\ \E m \in Conns :
                               /\ Len(inbox'[m]) > Len(inbox[m])
                               /\ inbox'[m] # Append(inbox[m], RecordTyped(c, t)))

\* One client holds a relayed signal and a relayed content message.
C13_Witness ==
    \E m \in Conns : \E i, j \in 1..Len(inbox[m]) :
        inbox[m][i].type = "offer" /\ inbox[m][j].type = "chat"

\* C14 - Join semantics: the step in which a connection joins creates the
\* room with that connection as its only member when the identifier is not
\* in the registry, and otherwise appends the connection to the existing
\* list, one member more and the others as they were; every other room is
\* unchanged.
C14_JoinSemantics ==
    [][\A c \in Conns :
          (pc[c] = "unconnected" /\ pc'[c] # "unconnected") =>
              LET r == room_id'[c]
              IN  /\ DOMAIN rooms' = DOMAIN rooms \cup {r}
                  /\ r \notin DOMAIN rooms => rooms'[r] = <<c>>
                  /\ r \in DOMAIN rooms =>
                        /\ Len(rooms'[r]) = Len(rooms[r]) + 1
                        /\ rooms'[r] = Append(rooms[r], c)
                  /\ \A q \in DOMAIN rooms \ {r} : rooms'[q] = rooms[q]]_vars

\* A room that a second join extended, beside a room that a join created.
C14_Witness ==
    /\ DOMAIN rooms = RoomIds
    /\ \E r \in DOMAIN rooms : Len(rooms[r]) = 2
    /\ \A c \in Conns : pc[c] = "recv" /\ open[c]

\* s without the elements equal to x, in the order of s.
Without(s, x) == SelectSeq(s, LAMBDA y : y # x)

\* C15 - Leave frame: the step that handles the disconnect of a member
\* removes that member only: the other members of its room keep their
\* membership and their order, every other room is unchanged; and a send by
\* the sole member that remains in a room somebody left delivers nothing,
\* raises nothing and leaves the sender waiting for its next message.
C15_LeaveFrame ==
    [][\A c \in Conns :
          /\ (pc[c] \in Joined /\ pc'[c] = "removed") =>
                LET r == room_id[c]
                    rest == Without(rooms[r], c)
                IN  /\ rest # <<>> => r \in DOMAIN rooms' /\ rooms'[r] = rest
                    /\ DOMAIN rooms' \subseteq DOMAIN rooms
                    /\ \A q \in DOMAIN rooms \ {r} :
                          q \in DOMAIN rooms' /\ rooms'[q] = rooms[q]
          /\ (/\ pc[c] = "recv" /\ nsent'[c] = nsent[c] + 1
              /\ rooms[room_id[c]] = <<c>>
              /\ \E x \in Conns : pc[x] = "removed" /\ room_id[x] = room_id[c]) =>
                inbox' = inbox /\ pc'[c] = "recv" /\ rooms' = rooms]_vars

\* X has disconnected from the room it shared with Y; Y, alone there, has
\* sent a message since.
C15_Witness ==
    \E x, y \in Conns :
        /\ pc[x] = "removed" /\ room_id[x] = room_id[y]
        /\ pc[y] = "recv" /\ rooms[room_id[y]] = <<y>>
        /\ bc[y].state = "done" /\ bc[y].start = {y} /\ nsent[y] >= 1

\* The task of c takes a step of its broadcast: it reads a message, or the
\* send it was suspended in returns.
BroadcastStep(c) ==
    \/ nsent'[c] # nsent[c]
    \/ pc[c] = "send" /\ (pc'[c] # "send" \/ idx'[c] # idx[c])

\* C16 - broadcast frame: a step of a broadcast in which no send raises
\* leaves the registry as it was; a connection alone in its room that sends
\* a message causes no delivery and no error, and its room still holds
\* exactly that connection.
C16_BroadcastFrame ==
    [][\A c \in Conns :
          /\ (BroadcastStep(c) /\ pc'[c] \in Joined) => rooms' = rooms
          /\ (/\ pc[c] = "recv" /\ nsent'[c] = nsent[c] + 1
              /\ rooms[room_id[c]] = <<c>>) =>
                /\ inbox' = inbox
                /\ pc'[c] = "recv"
                /\ room_id[c] \in DOMAIN rooms'
                /\ rooms'[room_id[c]] = <<c>>]_vars

\* A connection that joined alone has sent a message; nobody else ever
\* connected and it is still the one member of its room.
C16_Witness ==
    \E c \in Conns :
        /\ bc[c].state = "done" /\ bc[c].start = {c} /\ nsent[c] >= 1
        /\ rooms[room_id[c]] = <<c>>
        /\ \A x \in Conns \ {c} : pc[x] = "unconnected"

\* The member whose transport never drains: a send_json to it (line 48) is
\* not guaranteed to return.
SlowConn == 2

\* The send the task of c is suspended in is to the slow member.
StalledOnSlow(c) == pc[c] = "send" /\ bc[c].to = SlowConn

\* The event loop resumes a task once the send it awaits has returned; a
\* send to a draining transport returns, a send to the slow member need not.
SpecLive ==
    /\ Init
    /\ [][Next]_vars
    /\ \A c \in Conns : WF_vars(Resume(c) /\ bc[c].to # SlowConn)

\* C17 - a slow recipient does not stall the sender: a task suspended in the
\* send to the member that never drains eventually moves past that send, to
\* the remaining recipients and then to its next receive.
C17_SlowRecipientNoStall ==
    \A c \in Conns : StalledOnSlow(c) ~> ~StalledOnSlow(c)

\* C18 - room isolation: a message received from a connection joined to
\* room R is never delivered to a connection registered under another room
\* identifier, whatever rooms are deleted and re-created meanwhile.
C18_RoomIsolation ==
    \A m \in Conns :
        \A i \in 1..Len(inbox[m]) :
            room_id[inbox[m][i].from] = room_id[m]

\* A message has been delivered while a connection of the other room is
\* joined.
C18_Witness ==
    \E m, a \in Conns :
        /\ inbox[m] # <<>>
        /\ pc[a] \in Joined
        /\ room_id[a] # room_id[m]

\* C19 - at-most-once delivery: within the broadcast of one received message
\* no recipient is sent the message twice, also when members join or leave
\* while the fan-out is suspended.
C19_AtMostOnce ==
    \A m \in Conns :
        \A i, j \in 1..Len(inbox[m]) :
            (/\ inbox[m][i].from = inbox[m][j].from
             /\ inbox[m][i].seq = inbox[m][j].seq) => i = j

\* A broadcast has finished that delivered to two members and during which
\* the room changed.
C19_Witness ==
    \E c \in Conns :
        /\ bc[c].state = "done"
        /\ bc[c].changed
        /\ Cardinality(bc[c].got) >= 2
        /\ \A m \in bc[c].got : open[m] => Has(m, c, nsent[c])

\* The broadcast of c starts a send in this step.
SendStarted(c) ==
    /\ bc'[c].to # 0
    /\ \/ nsent'[c] # nsent[c]
       \/ pc[c] = "send" /\ (idx'[c] # idx[c] \/ pc'[c] # "send")

\* C20 - no send to removed connections: the target of every send a
\* broadcast starts is in the sender's room in the registry when the send
\* starts, and is no connection whose Leave has completed.
C20_NoSendToRemoved ==
    [][\A c \in Conns :
          SendStarted(c) =>
              /\ room_id[c] \in DOMAIN rooms
              /\ InList(bc'[c].to, rooms[room_id[c]])
              /\ pc[bc'[c].to] # "removed"]_vars

\* A fan-out that began with a member which has left since is suspended in
\* a later send, to a member that stayed.
C20_Witness ==
    \E c, x \in Conns :
        /\ pc[c] = "send"
        /\ x \in bc[c].start \ bc[c].stay
        /\ pc[x] = "removed"
        /\ bc[c].to \in bc[c].stay
        /\ bc[c].to \notin {c, x}

====
